---- MODULE Spec2Model ----
(***************************************************************************)
(* Balance / transaction consistency engine of the fund management         *)
(* backend (funds/models.py, funds/services.py, funds/serializers.py,      *)
(* funds/views.py).                                                        *)
(*                                                                         *)
(* The state is the content of the DynamoDB tables (funds, user_balances,  *)
(* transactions, user_funds) plus, for every worker, the position inside   *)
(* the handler it is executing and the objects that handler holds in       *)
(* memory.  A handler is a fixed sequence of storage operations; every     *)
(* storage operation is one step, so that two handlers can interleave      *)
(* exactly where the code can be preempted (between two storage calls).    *)
(* Every storage operation may fail (the storage raises), MaxFailures      *)
(* times in one request.                                                   *)
(*                                                                         *)
(* Money is counted in whole currency units.  The User and                 *)
(* UserNotifications tables are not part of the state: the handlers only   *)
(* read them to pick the notification channel.                             *)
(***************************************************************************)
EXTENDS Integers, Sequences, FiniteSets, TLC

\* ------------------------------------------------------------------ bounds
MaxTx == 2              \* transactions a run adds to the ledger, all handlers in sequence
MaxTxService == 3       \* the same, FundService calls alone in sequence
MaxTxView == 2          \* the same, view requests alone in sequence
MaxTxConc == 2          \* the same, requests interleaved
MaxFailures == 2        \* storage calls that may raise within one request
MaxFailuresConc == 1    \* the same, requests interleaved
MaxCatalogChanges == 1  \* catalog edits in one run
MaxTxUsers == 3         \* transactions a run of two users adds to the ledger
MaxTxWindow == 2        \* transactions a run adds to a ledger of about HistoryLimit

\* --------------------------------------------------------- program constants
DefaultBalance == 500000   \* UserBalance.create_user_balance initial_balance
HistoryLimit == 50         \* cancel_fund_subscription: get_user_transactions(user_id, limit=50)
DblDig == 15               \* decimal digits a float carries exactly (float(new_balance))

Users == {"user_default"}
DefaultUser == "user_default"
OtherUser == "user_b"                  \* a second user_id FundService is called for
AllUsers == Users \cup {OtherUser}
FundIds == {"F0", "F1", "F2"}          \* F0 has no record in the funds table
MinAmounts == {125000, 250000}
MinAmountsAboveDefault == {600000}     \* a fund that asks for more than DefaultBalance
InitBalances == {124999, 125000}
Procs == {1, 2}

NoTx == 0        \* no transaction object

\* ------------------------------------------------------------------ helpers
Abs(n) == IF n < 0 THEN -n ELSE n

RECURSIVE Digits(_)
Digits(n) == IF Abs(n) < 10 THEN 1 ELSE 1 + Digits(Abs(n) \div 10)

RECURSIVE Pow10(_)
Pow10(k) == IF k <= 0 THEN 1 ELSE 10 * Pow10(k - 1)

\* float(Decimal) in single precision: 7 significant decimal digits
ToFloatSingle(d) ==
  IF Digits(d) <= 7 THEN d
  ELSE LET scale == Pow10(Digits(d) - 7)
       IN  ((d + (scale \div 2)) \div scale) * scale

\* float(Decimal): a double carries DblDig significant decimal digits exactly;
\* a longer value is rounded to the digits the double keeps.
ToFloat(d) ==
  IF Digits(d) <= DblDig THEN d
  ELSE LET scale == Pow10(Digits(d) - DblDig)
       IN  ((d + (scale \div 2)) \div scale) * scale

\* A stored number is represented by the shortest decimal that reads back as
\* the same float, which is what Decimal(str(x)) yields when the code reads it.

\* a user_balances item, and the absence of one
BalanceRow(amount) == [exists |-> TRUE, available_balance |-> amount]
NoBalance == [exists |-> FALSE, available_balance |-> 0]

\* a user_funds item, and the absence of one
NoRow == [exists |-> FALSE, active |-> FALSE, subscription_amount |-> 0,
          invested_amount |-> 0, subscribed_at |-> 0, cancelled_at |-> -1,
          created_at |-> 0]

\* what a worker remembers of the request it served last, when that request
\* succeeded: the handler, its arguments and the balance it started from
NoCall == [op |-> "none", user |-> DefaultUser, fund |-> "F0", cur |-> 0]

\* a worker: pc is its position in the handler `op`, called for (user, fund);
\* fmin, cur, amount, tx, upd_ok and sub are the handler's local objects
\* (fund.minimum_amount, current_balance, the transaction amount, the
\* transaction, balance_updated, the UserFund row); sent is the view's
\* notification_sent; fails counts the storage
\* calls that raised; outcome and ret_status
\* are its result.  fund_ok, bal_ok and st_ok record that the fund lookup
\* passed, that the balance was read and that the status write was stored;
\* bal0 and row0 are the stored balance and the stored UserFund row of
\* (user, fund) when the request arrived, tables0 the ledger and the user's
\* UserFund rows at that time (kept in "validation" runs); todo is the list
\* of UserFund objects UserActiveFundsView.get still has to go through.
Idle == [pc |-> "idle", op |-> "none", user |-> DefaultUser, fund |-> "F0",
         fmin |-> 0, cur |-> 0, amount |-> 0, tx |-> NoTx, upd_ok |-> FALSE,
         fails |-> 0, sub |-> NoRow, sent |-> FALSE, outcome |-> "none", ret_status |-> "None",
         fund_ok |-> FALSE, bal_ok |-> FALSE, st_ok |-> FALSE,
         bal0 |-> NoBalance, row0 |-> NoRow, prev |-> NoCall, todo |-> <<>>,
         tables0 |-> <<>>]

VARIABLES funds, balance, transactions, user_funds, clock, proc,
          catalogChanges, mode

vars == <<funds, balance, transactions, user_funds, clock, proc,
          catalogChanges, mode>>

\* ------------------------------------------------------------- pure helpers
Min(a, b) == IF a < b THEN a ELSE b

TxIds == 1..Len(transactions)

\* the orderings of a set of transactions by created_at, newest first (the
\* user_index range key with scan_index_forward=False); items with equal
\* created_at come in any order
RECURSIVE newest_first(_)
newest_first(ids) ==
  IF ids = {} THEN {<<>>}
  ELSE LET top == {i \in ids : \A j \in ids :
                     transactions[i].created_at >= transactions[j].created_at}
       IN  UNION {{<<i>> \o q : q \in newest_first(ids \ {i})} : i \in top}

\* a query that returns the transactions of every user
get_all_transactions(user_id, limit) ==
  {SubSeq(q, 1, Min(limit, Len(q))) : q \in newest_first(TxIds)}

\* a query without the limit
get_user_transactions_unbounded(user_id, limit) ==
  newest_first({i \in TxIds : transactions[i].user_id = user_id})

\* Transaction.get_user_transactions: the user_index query, newest first,
\* at most `limit` items; an empty result when the query raises.  The index
\* does not order items with equal created_at, so every order of a tie is a
\* possible result.
get_user_transactions(user_id, limit) ==
  LET ids == {i \in TxIds : transactions[i].user_id = user_id}
  IN  {SubSeq(q, 1, Min(limit, Len(q))) : q \in newest_first(ids)}

\* a scan that never looks for a later cancellation
already_cancelled_never(q, fund_id, k) == FALSE

\* cancel_fund_subscription, step 2 (the inner loop): is there, in the scanned
\* list q, a COMPLETED CANCELLATION of the fund created strictly later than
\* the subscription at position k ?
already_cancelled(q, fund_id, k) ==
  \E j \in 1..Len(q) :
     /\ transactions[q[j]].fund_id = fund_id
     /\ transactions[q[j]].transaction_type = "CANCELLATION"
     /\ transactions[q[j]].status = "COMPLETED"
     /\ transactions[q[j]].created_at > transactions[q[k]].created_at

\* cancel_fund_subscription, step 2 (the outer loop): a COMPLETED SUBSCRIPTION
\* of the fund
is_candidate(q, fund_id, k) ==
  /\ transactions[q[k]].fund_id = fund_id
  /\ transactions[q[k]].transaction_type = "SUBSCRIPTION"
  /\ transactions[q[k]].status = "COMPLETED"

\* the first candidate of q that is not already cancelled, NoTx when none
last_subscription(q, fund_id) ==
  LET hits == {k \in 1..Len(q) : is_candidate(q, fund_id, k)
                                   /\ ~already_cancelled(q, fund_id, k)}
  IN  IF hits = {} THEN NoTx
      ELSE q[CHOOSE k \in hits : \A m \in hits : k <= m]

\* a check that lets only users without a row subscribe
can_user_subscribe_once(row) == ~row.exists

\* UserFund.can_user_subscribe on the row get_subscription returned
can_user_subscribe(row) == ~row.exists \/ ~row.active

\* ------------------------------------------------------------ step helpers
\* a storage call of worker p raises: at most MaxFailures (MaxFailuresConc)
\* do in one request
Fails(p, fail) ==
  fail => proc[p].fails < (IF mode.run \in {"conc", "users"} THEN MaxFailuresConc
                           ELSE MaxFailures)

\* the handler's objects during a step, the raise counted
Me(p, fail) == IF fail THEN [proc[p] EXCEPT !.fails = @ + 1] ELSE proc[p]

Goto(p, me, label) ==
  proc' = [proc EXCEPT ![p] = [me EXCEPT !.pc = label]]

\* the handler returns: outcome is the kind of result, status the status field
\* of the transaction snapshot it returns ("None" when it returns no data)
Return(p, me, outcome, status) ==
  proc' = [proc EXCEPT ![p] = [me EXCEPT !.pc = "done", !.outcome = outcome,
                                         !.ret_status = status]]

\* mode.history is the number of transactions the ledger holds when the run
\* starts; mode.run names the requests a run is made of: "all" (every handler, one
\* request at a time), "service" (FundService calls, one at a time), "views"
\* (subscribe and cancel requests through the views, one at a time), "conc"
\* (every handler, two workers), "registry" (the views and the listing of
\* UserActiveFundsView, one at a time), "validation" (as "all", the catalog
\* edits including a minimum_amount above the default balance), "users"
\* (FundService calls of two users, one worker each, interleaved), "decimal"
\* (FundService calls, one at a time, on amounts with decimals: the unit of
\* every amount of such a run is one hundredth), "window" (FundService
\* calls for one fund, one at a time, on a ledger of about HistoryLimit
\* transactions);
\* mode.balance0 is the user_balances table the run starts from
TxBound == mode.history + (CASE mode.run = "service" -> MaxTxService
                             [] mode.run \in {"views", "registry"} -> MaxTxView
                             [] mode.run = "conc" -> MaxTxConc
                             [] mode.run = "users" -> MaxTxUsers
                             [] mode.run = "window" -> MaxTxWindow
                             [] OTHER -> MaxTx)

\* Transaction.create_transaction(...) followed by transaction.save()
create_transaction(p, type, amount, next, raised) ==
  /\ Len(transactions) < TxBound
  /\ \E fail \in BOOLEAN :
       /\ Fails(p, fail)
       /\ LET me == Me(p, fail) IN
          IF fail
          THEN /\ Return(p, me, raised, "None")
               /\ UNCHANGED <<transactions, clock>>
          ELSE \E adv \in (IF transactions = <<>> THEN {1} ELSE {0, 1}) :
                 /\ clock' = clock + adv
                 /\ transactions' = Append(transactions,
                      [user_id |-> me.user, fund_id |-> me.fund,
                       transaction_type |-> type, amount |-> ToFloat(amount),
                       status |-> "PENDING", notification_sent |-> FALSE,
                       created_at |-> clock + adv])
                 /\ Goto(p, [me EXCEPT !.tx = Len(transactions) + 1,
                                      !.amount = amount], next)
  /\ UNCHANGED <<funds, balance, user_funds, catalogChanges, mode>>

\* a balance write that applies the change to the stored value (an atomic
\* increment) in place of overwriting it
update_balance_atomic(p, new_balance, next) ==
  /\ \E fail \in BOOLEAN :
       /\ Fails(p, fail)
       /\ LET me == Me(p, fail) IN
          /\ balance' = IF fail THEN balance
                        ELSE [balance EXCEPT ![me.user] =
                                BalanceRow(ToFloat(@.available_balance
                                                   + new_balance - me.cur))]
          /\ Goto(p, [me EXCEPT !.upd_ok = ~fail], next)
  /\ UNCHANGED <<funds, transactions, user_funds, clock, catalogChanges, mode>>

\* UserBalance.update_balance(new_balance): overwrite, False when save raises
update_balance(p, new_balance, next) ==
  /\ \E fail \in BOOLEAN :
       /\ Fails(p, fail)
       /\ LET me == Me(p, fail) IN
          /\ balance' = IF fail THEN balance
                        ELSE [balance EXCEPT ![me.user] =
                                BalanceRow(ToFloat(new_balance))]
          /\ Goto(p, [me EXCEPT !.upd_ok = ~fail], next)
  /\ UNCHANGED <<funds, transactions, user_funds, clock, catalogChanges, mode>>

\* Transaction.update_status(status): the object takes the status, the stored
\* item only when save does not raise; the result is ignored by every caller
update_status(me, status, fail) ==
  transactions' = IF fail THEN transactions
                  ELSE [transactions EXCEPT ![me.tx].status = status]

\* the balance check left out: every subscription is charged
insufficient_balance_unchecked(current_balance, minimum_amount) == FALSE

\* subscribe: `if current_balance < minimum_amount` (services.py:67, serializers.py:129)
insufficient_balance(current_balance, minimum_amount) ==
  current_balance < minimum_amount

\* subscribe: new_balance = current_balance - minimum_amount
debit(current_balance, minimum_amount) == current_balance - minimum_amount

\* cancel: new_balance = current_balance + refund_amount
credit(current_balance, refund_amount) == current_balance + refund_amount

\* a step that stores a FAILED transaction for the request it is checking
Rejection_logged ==
  /\ transactions' = Append(transactions,
        [user_id |-> DefaultUser, fund_id |-> "F0", transaction_type |-> "SUBSCRIPTION",
         amount |-> 0, status |-> "FAILED", notification_sent |-> FALSE,
         created_at |-> clock])
  /\ UNCHANGED <<funds, balance, user_funds, clock, catalogChanges, mode>>

Unchanged_tables == UNCHANGED <<funds, balance, transactions, user_funds, clock,
                                catalogChanges, mode>>

\* what follows get_or_create_balance: a subscription makes the balance check
\* (services.py:67, serializers.py:129), a cancellation has none
balance_check(p, me, checked, next) ==
  IF checked /\ insufficient_balance(me.cur, me.fmin)
  THEN Return(p, me, "InsufficientBalance", "None")
  ELSE Goto(p, me, next)

\* UserBalance.get_or_create_balance, the cls.get(user_id): a raise escapes
\* (result `raised`), a missing row leads to the DoesNotExist branch,
\* otherwise the caller reads available_balance and goes on
get_balance(p, raised, checked, next) ==
  /\ \E fail \in BOOLEAN :
       /\ Fails(p, fail)
       /\ LET me == Me(p, fail) IN
          IF fail THEN Return(p, me, raised, "None")
          ELSE IF ~balance[me.user].exists THEN Goto(p, me, "balance_new")
          ELSE balance_check(p, [me EXCEPT !.cur = balance[me.user].available_balance,
                                           !.bal_ok = TRUE], checked, next)
  /\ Unchanged_tables

\* the handlers that call get_or_create_balance: how a raise of it ends the
\* handler, whether the balance check follows, and the step after it
AfterBalance ==
  [subscribe_service |-> [raised |-> "Exception", checked |-> TRUE, next |-> "ss_tx"],
   cancel_service |-> [raised |-> "Exception", checked |-> FALSE, next |-> "sc_tx"],
   subscribe_view |-> [raised |-> "ServerError", checked |-> TRUE, next |-> "vs_tx"],
   cancel_view |-> [raised |-> "ServerError", checked |-> FALSE, next |-> "vc_tx"]]

\* UserBalance.get_or_create_balance, the DoesNotExist branch:
\* create_user_balance(user_id) with the default, then balance.save()
create_user_balance(p) ==
  /\ proc[p].pc = "balance_new"
  /\ \E fail \in BOOLEAN :
       /\ Fails(p, fail)
       /\ LET me == Me(p, fail)
              to == AfterBalance[me.op]
          IN  IF fail
              THEN Return(p, me, to.raised, "None") /\ UNCHANGED balance
              ELSE /\ balance' = [balance EXCEPT ![me.user] =
                                    BalanceRow(ToFloat(DefaultBalance))]
                   /\ balance_check(p, [me EXCEPT !.cur = ToFloat(DefaultBalance),
                                                   !.bal_ok = TRUE],
                                    to.checked, to.next)
  /\ UNCHANGED <<funds, transactions, user_funds, clock, catalogChanges, mode>>

\* ------------------------------------------- FundService.subscribe_to_fund
\* 1. Fund.get(fund_id), is_active
ss_fund(p) ==
  /\ proc[p].pc = "ss_fund"
  /\ \E fail \in BOOLEAN :
       /\ Fails(p, fail)
       /\ LET me == Me(p, fail)
              f == funds[me.fund]
          IN  IF fail THEN Return(p, me, "Exception", "None")
              ELSE IF ~f.exists THEN Return(p, me, "FundNotFound", "None")
              ELSE IF ~f.is_active THEN Return(p, me, "FundUnavailable", "None")
              ELSE Goto(p, [me EXCEPT !.fmin = f.minimum_amount, !.fund_ok = TRUE],
                        "ss_bal")
  /\ Unchanged_tables

\* 2. get_or_create_balance, 3. the balance check
ss_bal(p) ==
  /\ proc[p].pc = "ss_bal"
  /\ get_balance(p, "Exception", TRUE, "ss_tx")

\* 4. the PENDING transaction
ss_tx(p) ==
  /\ proc[p].pc = "ss_tx"
  /\ create_transaction(p, "SUBSCRIPTION", proc[p].fmin, "ss_upd", "Exception")

\* 5. update_balance(current_balance - minimum_amount)
ss_upd(p) ==
  /\ proc[p].pc = "ss_upd"
  /\ update_balance(p, debit(proc[p].cur, proc[p].fmin), "ss_status")

\* 6./7. update_status('COMPLETED') or update_status('FAILED'), and the result
service_status(p, label) ==
  /\ proc[p].pc = label
  /\ \E fail \in BOOLEAN :
       /\ Fails(p, fail)
       /\ LET me == Me(p, fail)
          IN  IF me.upd_ok
              THEN /\ update_status(me, "COMPLETED", fail)
                   /\ Return(p, [me EXCEPT !.st_ok = ~fail], "Success", "COMPLETED")
              ELSE /\ update_status(me, "FAILED", fail)
                   /\ Return(p, [me EXCEPT !.st_ok = ~fail], "BalanceUpdateFailed",
                             "None")
  /\ UNCHANGED <<funds, balance, user_funds, clock, catalogChanges, mode>>

ss_status(p) == service_status(p, "ss_status")

subscribe_to_fund(p) ==
  ss_fund(p) \/ ss_bal(p) \/ ss_tx(p) \/ ss_upd(p) \/ ss_status(p)

\* a fund check of cancel that also asks for is_active
fund_exists_and_active(fund_id) == funds[fund_id].exists /\ funds[fund_id].is_active

\* the fund check of cancel: Fund.get(fund_id) does not raise DoesNotExist
fund_exists(fund_id) == funds[fund_id].exists

\* ------------------------------------ FundService.cancel_fund_subscription
\* 1. Fund.get(fund_id): the fund has to exist, is_active is not read
sc_fund(p) ==
  /\ proc[p].pc = "sc_fund"
  /\ \E fail \in BOOLEAN :
       /\ Fails(p, fail)
       /\ LET me == Me(p, fail)
          IN  IF fail THEN Return(p, me, "Exception", "None")
              ELSE IF ~fund_exists(me.fund) THEN Return(p, me, "FundNotFound", "None")
              ELSE Goto(p, [me EXCEPT !.fund_ok = TRUE], "sc_scan")
  /\ Unchanged_tables

\* a refund of what the fund asks for today
refund_amount_current_minimum(last, fund_id) == funds[fund_id].minimum_amount

\* 3. refund_amount = Decimal(str(last_subscription.amount))
refund_amount(last, fund_id) == transactions[last].amount

\* 2. the scan of the last HistoryLimit transactions
sc_scan(p) ==
  /\ proc[p].pc = "sc_scan"
  /\ \E fail \in BOOLEAN :
       /\ Fails(p, fail)
       /\ LET me == Me(p, fail)
          IN  \E q \in (IF fail THEN {<<>>}
                        ELSE get_user_transactions(me.user, HistoryLimit)) :
                LET last == last_subscription(q, me.fund)
                IN  IF last = NoTx
                    THEN Return(p, me, "NoActiveSubscription", "None")
                    ELSE Goto(p, [me EXCEPT !.amount = refund_amount(last, me.fund)],
                              "sc_bal")
  /\ Unchanged_tables

\* 3. get_or_create_balance
sc_bal(p) ==
  /\ proc[p].pc = "sc_bal"
  /\ get_balance(p, "Exception", FALSE, "sc_tx")

\* 4. the PENDING cancellation of refund_amount
sc_tx(p) ==
  /\ proc[p].pc = "sc_tx"
  /\ create_transaction(p, "CANCELLATION", proc[p].amount, "sc_upd", "Exception")

\* 5. update_balance(current_balance + refund_amount)
sc_upd(p) ==
  /\ proc[p].pc = "sc_upd"
  /\ update_balance(p, credit(proc[p].cur, proc[p].amount), "sc_status")

sc_status(p) == service_status(p, "sc_status")

cancel_fund_subscription(p) ==
  sc_fund(p) \/ sc_scan(p) \/ sc_bal(p) \/ sc_tx(p) \/ sc_upd(p)
  \/ sc_status(p)

\* ------------------- FundSubscribeView.post with FundSubscriptionSerializer
\* serializer 1: Fund.get and is_active inside `try ... except Exception`:
\* a raise, a missing fund and an inactive fund all end in the same error
vs_fund(p) ==
  /\ proc[p].pc = "vs_fund"
  /\ \E fail \in BOOLEAN :
       /\ Fails(p, fail)
       /\ LET me == Me(p, fail)
              f == funds[me.fund]
          IN  IF fail \/ ~f.exists \/ ~f.is_active
              THEN Return(p, me, "FundNotFound", "None")
              ELSE Goto(p, [me EXCEPT !.fmin = f.minimum_amount, !.fund_ok = TRUE],
                        "vs_sub")
  /\ Unchanged_tables

\* serializer 2: UserFund.can_user_subscribe (get_subscription); a raise
\* reaches the view's outer `except Exception`
vs_sub(p) ==
  /\ proc[p].pc = "vs_sub"
  /\ \E fail \in BOOLEAN :
       /\ Fails(p, fail)
       /\ LET me == Me(p, fail)
          IN  IF fail THEN Return(p, me, "ServerError", "None")
              ELSE IF ~can_user_subscribe(user_funds[me.user][me.fund])
              THEN Return(p, me, "AlreadySubscribed", "None")
              ELSE Goto(p, me, "vs_bal")
  /\ Unchanged_tables

\* serializer 3: get_or_create_balance and the balance check
vs_bal(p) ==
  /\ proc[p].pc = "vs_bal"
  /\ get_balance(p, "ServerError", TRUE, "vs_tx")

\* 5. the PENDING transaction
vs_tx(p) ==
  /\ proc[p].pc = "vs_tx"
  /\ create_transaction(p, "SUBSCRIPTION", proc[p].fmin, "vs_upd", "ServerError")

\* 6. update_balance(current_balance - minimum_amount)
vs_upd(p) ==
  /\ proc[p].pc = "vs_upd"
  /\ update_balance(p, debit(proc[p].cur, proc[p].fmin), "vs_status")

\* 7. update_status: COMPLETED and on to the registry, or FAILED and a 500
view_status(p, label, next) ==
  /\ proc[p].pc = label
  /\ \E fail \in BOOLEAN :
       /\ Fails(p, fail)
       /\ LET me == Me(p, fail)
          IN  IF me.upd_ok
              THEN /\ update_status(me, "COMPLETED", fail)
                   /\ Goto(p, [me EXCEPT !.st_ok = ~fail], next)
              ELSE /\ update_status(me, "FAILED", fail)
                   /\ Return(p, [me EXCEPT !.st_ok = ~fail], "BalanceUpdateFailed",
                             "None")
  /\ UNCHANGED <<funds, balance, user_funds, clock, catalogChanges, mode>>

vs_status(p) == view_status(p, "vs_status", "vs_reg")

\* 8. UserFund.get_subscription inside the inner try: a raise is printed and
\* the registry is skipped; an active row is left as it is
vs_reg(p) ==
  /\ proc[p].pc = "vs_reg"
  /\ \E fail \in BOOLEAN :
       /\ Fails(p, fail)
       /\ LET me == Me(p, fail)
              row == user_funds[me.user][me.fund]
          IN  IF fail \/ (row.exists /\ row.active)
              THEN Goto(p, me, "vs_notify")
              ELSE Goto(p, [me EXCEPT !.sub = row], "vs_regsave")
  /\ Unchanged_tables

\* UserFund.create_subscription(user_id, fund_id, amount, invested_amount)
create_subscription(amount, invested_amount, now) ==
  [exists |-> TRUE, active |-> TRUE, subscription_amount |-> ToFloat(amount),
   invested_amount |-> ToFloat(invested_amount), subscribed_at |-> now,
   cancelled_at |-> -1, created_at |-> now]

\* a reactivation that builds the row anew
reactivate_as_new(row) ==
  create_subscription(row.subscription_amount, row.invested_amount, clock)

\* UserFund.reactivate_subscription: the fields the object takes
reactivate_subscription(row) == [row EXCEPT !.active = TRUE, !.cancelled_at = -1]

\* UserFund.cancel_subscription: the fields the object takes
cancel_subscription(row, now) == [row EXCEPT !.active = FALSE, !.cancelled_at = now]

\* user_fund.save(): the whole item is written
save_row(me, row, fail) ==
  user_funds' = IF fail THEN user_funds
                ELSE [user_funds EXCEPT ![me.user][me.fund] = row]

\* 8. a new row is created and saved, or reactivate_subscription() saves the
\* inactive one (its own try returns False on a raise)
vs_regsave(p) ==
  /\ proc[p].pc = "vs_regsave"
  /\ \E fail \in BOOLEAN :
       /\ Fails(p, fail)
       /\ LET me == Me(p, fail)
          IN  IF me.sub.exists
              THEN /\ save_row(me, reactivate_subscription(me.sub), fail)
                   /\ Goto(p, [me EXCEPT !.sub = reactivate_subscription(me.sub)],
                           "vs_regsave2")
              ELSE /\ save_row(me, create_subscription(me.fmin, me.fmin, clock), fail)
                   /\ Goto(p, me, "vs_notify")
  /\ UNCHANGED <<funds, balance, transactions, clock, catalogChanges, mode>>

\* 8. the reactivated object takes the new amounts and subscribed_at, save()
vs_regsave2(p) ==
  /\ proc[p].pc = "vs_regsave2"
  /\ \E fail \in BOOLEAN :
       /\ Fails(p, fail)
       /\ LET me == Me(p, fail)
              row == [me.sub EXCEPT !.subscription_amount = ToFloat(me.fmin),
                                    !.invested_amount = ToFloat(me.fmin),
                                    !.subscribed_at = clock]
          IN  /\ save_row(me, row, fail)
              /\ Goto(p, [me EXCEPT !.sub = row], "vs_notify")
  /\ UNCHANGED <<funds, balance, transactions, clock, catalogChanges, mode>>

\* a post-notification save that writes the status the item was created with
notified_as_created(item) ==
  [item EXCEPT !.status = "PENDING", !.notification_sent = TRUE]

\* a post-notification save that takes the transaction back
notified_rolled_back(item) ==
  [item EXCEPT !.status = "FAILED", !.notification_sent = TRUE]

\* the item the view saves after the notification: the transaction object,
\* whose status update_status set to COMPLETED, with notification_sent
notified(item) == [item EXCEPT !.status = "COMPLETED", !.notification_sent = TRUE]

\* 9. send_transaction_notification; when it reports success the transaction
\* object (status COMPLETED in memory) takes notification_sent and is saved;
\* a raise of that save reaches the outer `except Exception`
view_notify(p, label) ==
  /\ proc[p].pc = label
  /\ \E sent \in BOOLEAN, fail \in BOOLEAN :
       /\ fail => sent
       /\ Fails(p, fail)
       /\ LET me == [Me(p, fail) EXCEPT !.sent = sent]
          IN  IF ~sent
              THEN Return(p, me, "Success", "COMPLETED") /\ UNCHANGED transactions
              ELSE IF fail
              THEN Return(p, me, "ServerError", "None") /\ UNCHANGED transactions
              ELSE /\ transactions' = [transactions EXCEPT
                                         ![me.tx] = notified(transactions[me.tx])]
                   /\ Return(p, [me EXCEPT !.st_ok = TRUE], "Success", "COMPLETED")
  /\ UNCHANGED <<funds, balance, user_funds, clock, catalogChanges, mode>>

vs_notify(p) == view_notify(p, "vs_notify")

FundSubscribeView_post(p) ==
  vs_fund(p) \/ vs_sub(p) \/ vs_bal(p) \/ vs_tx(p) \/ vs_upd(p)
  \/ vs_status(p) \/ vs_reg(p) \/ vs_regsave(p) \/ vs_regsave2(p) \/ vs_notify(p)

\* ----------------- FundCancellationView.post with FundCancellationSerializer
\* serializer 1: Fund.get inside `try ... except Exception`
vc_fund(p) ==
  /\ proc[p].pc = "vc_fund"
  /\ \E fail \in BOOLEAN :
       /\ Fails(p, fail)
       /\ LET me == Me(p, fail)
          IN  IF fail \/ ~fund_exists(me.fund)
              THEN Return(p, me, "FundNotFound", "None")
              ELSE Goto(p, [me EXCEPT !.fund_ok = TRUE], "vc_sub")
  /\ Unchanged_tables

\* serializer 2: the registry row has to exist and be active; the refund is
\* its invested_amount
vc_sub(p) ==
  /\ proc[p].pc = "vc_sub"
  /\ \E fail \in BOOLEAN :
       /\ Fails(p, fail)
       /\ LET me == Me(p, fail)
              row == user_funds[me.user][me.fund]
          IN  IF fail THEN Return(p, me, "ServerError", "None")
              ELSE IF ~row.exists \/ ~row.active
              THEN Return(p, me, "NoActiveSubscription", "None")
              ELSE Goto(p, [me EXCEPT !.sub = row, !.amount = row.invested_amount],
                        "vc_bal")
  /\ Unchanged_tables

\* serializer 3: get_or_create_balance
vc_bal(p) ==
  /\ proc[p].pc = "vc_bal"
  /\ get_balance(p, "ServerError", FALSE, "vc_tx")

\* 5. the PENDING cancellation of refund_amount
vc_tx(p) ==
  /\ proc[p].pc = "vc_tx"
  /\ create_transaction(p, "CANCELLATION", proc[p].amount, "vc_upd", "ServerError")

\* 6. update_balance(current_balance + refund_amount)
vc_upd(p) ==
  /\ proc[p].pc = "vc_upd"
  /\ update_balance(p, credit(proc[p].cur, proc[p].amount), "vc_status")

vc_status(p) == view_status(p, "vc_status", "vc_reg")

\* 8. subscription.cancel_subscription() on the row the serializer read
vc_reg(p) ==
  /\ proc[p].pc = "vc_reg"
  /\ \E fail \in BOOLEAN :
       /\ Fails(p, fail)
       /\ LET me == Me(p, fail)
          IN  /\ save_row(me, cancel_subscription(me.sub, clock), fail)
              /\ Goto(p, [me EXCEPT !.sub = cancel_subscription(me.sub, clock)],
                      "vc_notify")
  /\ UNCHANGED <<funds, balance, transactions, clock, catalogChanges, mode>>

vc_notify(p) == view_notify(p, "vc_notify")

FundCancellationView_post(p) ==
  vc_fund(p) \/ vc_sub(p) \/ vc_bal(p) \/ vc_tx(p) \/ vc_upd(p)
  \/ vc_status(p) \/ vc_reg(p) \/ vc_notify(p)

\* ------------------------------------------------- UserActiveFundsView.get
\* the user_funds query returns the rows of a user in the order of the range
\* key fund_id
FundOrder == <<"F0", "F1", "F2">>

\* UserFund.get_user_active_funds: the active rows of the user, an empty list
\* when the query raises
get_user_active_funds(user_id) ==
  LET active(i) == /\ user_funds[user_id][FundOrder[i]].exists
                   /\ user_funds[user_id][FundOrder[i]].active
      item(i) == [fund_id |-> FundOrder[i], row |-> user_funds[user_id][FundOrder[i]]]
      RECURSIVE From(_)
      From(i) == IF i > Len(FundOrder) THEN <<>>
                 ELSE IF active(i) THEN <<item(i)>> \o From(i + 1)
                 ELSE From(i + 1)
  IN  From(1)

\* the loop goes on with the rest of the list, or the view answers 200
va_loop(p, me, rest) ==
  IF rest = <<>> THEN Return(p, [me EXCEPT !.todo = rest], "Success", "None")
  ELSE Goto(p, [me EXCEPT !.todo = rest], "va_fund")

\* 1. active_subscriptions = UserFund.get_user_active_funds(user_id)
va_query(p) ==
  /\ proc[p].pc = "va_query"
  /\ \E fail \in BOOLEAN :
       /\ Fails(p, fail)
       /\ LET me == Me(p, fail)
          IN  va_loop(p, me, IF fail THEN <<>> ELSE get_user_active_funds(me.user))
  /\ Unchanged_tables

\* 2. Fund.get(subscription.fund_id): the fund is listed; Fund.DoesNotExist
\* leads to the cancellation of the row; another raise reaches the outer
\* `except Exception`
va_fund(p) ==
  /\ proc[p].pc = "va_fund"
  /\ \E fail \in BOOLEAN :
       /\ Fails(p, fail)
       /\ LET me == Me(p, fail)
          IN  IF fail THEN Return(p, me, "ServerError", "None")
              ELSE IF funds[Head(me.todo).fund_id].exists
              THEN va_loop(p, me, Tail(me.todo))
              ELSE Goto(p, me, "va_cancel")
  /\ Unchanged_tables

\* 2. subscription.cancel_subscription() on the row the query returned
va_cancel(p) ==
  /\ proc[p].pc = "va_cancel"
  /\ \E fail \in BOOLEAN :
       /\ Fails(p, fail)
       /\ LET me == Me(p, fail)
              item == Head(me.todo)
          IN  /\ user_funds' = IF fail THEN user_funds
                               ELSE [user_funds EXCEPT ![me.user][item.fund_id] =
                                       cancel_subscription(item.row, clock)]
              /\ va_loop(p, me, Tail(me.todo))
  /\ UNCHANGED <<funds, balance, transactions, clock, catalogChanges, mode>>

UserActiveFundsView_get(p) == va_query(p) \/ va_fund(p) \/ va_cancel(p)

\* ------------------------------------------------------------- environment
\* a request arrives: a worker that is idle starts a handler.  Sequential
\* runs use worker 1 alone; the views always act for the default user.
FirstStep == [subscribe_service |-> "ss_fund", cancel_service |-> "sc_fund",
              subscribe_view |-> "vs_fund", cancel_view |-> "vc_fund",
              active_funds_view |-> "va_query"]

Requests == CASE mode.run \in {"service", "users", "decimal", "window"} ->
                     {"subscribe_service", "cancel_service"}
              [] mode.run = "views" -> {"subscribe_view", "cancel_view"}
              [] mode.run = "registry" -> {"subscribe_view", "cancel_view",
                                           "active_funds_view"}
              [] OTHER -> DOMAIN AfterBalance

\* interleaved runs are made of requests for one fund
RequestFunds == IF mode.run \in {"conc", "users", "window"} THEN {"F1"} ELSE FundIds

\* the user worker p serves: one user, or one user per worker
RequestUsers(p) == IF mode.run = "users"
                   THEN (IF p = 1 THEN {DefaultUser} ELSE {OtherUser})
                   ELSE Users

Start(p) ==
  /\ proc[p].pc = "idle"
  /\ mode.run \in {"conc", "users"} \/ p = 1
  /\ \E op \in Requests, u \in RequestUsers(p), f \in RequestFunds :
       /\ op \in {"subscribe_view", "cancel_view", "active_funds_view"}
            => u = DefaultUser
       /\ op = "active_funds_view" => f = "F0"     \* the request names no fund
       /\ proc' = [proc EXCEPT ![p] = [Idle EXCEPT !.pc = FirstStep[op], !.op = op,
                                             !.user = u, !.fund = f,
                                             !.bal0 = balance[u],
                                             !.row0 = user_funds[u][f],
                                             !.tables0 =
                                                IF mode.run = "validation"
                                                THEN <<transactions, user_funds[u]>>
                                                ELSE <<>>,
                                             !.prev = proc[p].prev]]
  /\ UNCHANGED <<funds, balance, transactions, user_funds, clock,
                 catalogChanges, mode>>

\* the response is delivered and the handler's objects are dropped (worker 2
\* serves one request in a run and keeps its result); what is remembered of
\* the call is used only where requests run one at a time
Finish(p) ==
  /\ proc[p].pc = "done"
  /\ p = 1
  /\ LET me == proc[p]
     IN  proc' = [proc EXCEPT ![p] = [Idle EXCEPT !.prev =
                    IF me.outcome = "Success" /\ mode.run \notin {"conc", "users"}
                    THEN [op |-> me.op, user |-> me.user, fund |-> me.fund,
                          cur |-> me.cur]
                    ELSE NoCall]]
  /\ UNCHANGED <<funds, balance, transactions, user_funds, clock,
                 catalogChanges, mode>>

\* the minimum amounts a fund can be given
Minimums == IF mode.run = "validation" THEN MinAmounts \cup MinAmountsAboveDefault
            ELSE MinAmounts

\* the funds table is edited between requests: a fund gets another
\* minimum_amount, or is taken out of the offer (is_active = False)
SetMinimum ==
  /\ \A p \in Procs : proc[p].pc = "idle"
  /\ catalogChanges < MaxCatalogChanges
  /\ \E f \in FundIds, m \in Minimums :
       /\ funds[f].exists /\ funds[f].minimum_amount # m
       /\ funds' = [funds EXCEPT ![f].minimum_amount = m]
  /\ catalogChanges' = catalogChanges + 1
  /\ UNCHANGED <<balance, transactions, user_funds, clock, proc,
                 mode>>

Deactivate ==
  /\ \A p \in Procs : proc[p].pc = "idle"
  /\ catalogChanges < MaxCatalogChanges
  /\ \E f \in FundIds :
       /\ funds[f].exists /\ funds[f].is_active
       /\ funds' = [funds EXCEPT ![f].is_active = FALSE]
  /\ catalogChanges' = catalogChanges + 1
  /\ UNCHANGED <<balance, transactions, user_funds, clock, proc,
                 mode>>

\* the record of a fund is deleted from the funds table (the case
\* UserActiveFundsView.get handles with `except Fund.DoesNotExist`)
Remove ==
  /\ \A p \in Procs : proc[p].pc = "idle"
  /\ catalogChanges < MaxCatalogChanges
  /\ \E f \in FundIds :
       /\ funds[f].exists
       /\ funds' = [funds EXCEPT ![f] = [exists |-> FALSE, is_active |-> FALSE,
                                         minimum_amount |-> 125000]]
  /\ catalogChanges' = catalogChanges + 1
  /\ UNCHANGED <<balance, transactions, user_funds, clock, proc,
                 mode>>

\* --------------------------------------------------------- specifications
\* the funds table, and the workers before the first request
InitCatalog ==
  /\ funds = [f \in FundIds |->
                [exists |-> f # "F0", is_active |-> f # "F0",
                 minimum_amount |-> IF f = "F2" THEN 250000 ELSE 125000]]
  /\ proc = [p \in Procs |-> Idle]
  /\ catalogChanges = 0

\* a run starts with no user data ...
InitTables ==
  /\ InitCatalog
  /\ balance \in [AllUsers -> {NoBalance} \cup {BalanceRow(b) : b \in InitBalances}]
  /\ balance[OtherUser] = NoBalance
  /\ transactions = <<>>
  /\ user_funds = [u \in AllUsers |-> [f \in FundIds |-> NoRow]]
  /\ clock = 0

\* ... or with the tables as an earlier subscription of F1 through
\* FundSubscribeView and its cancellation through FundCancellationView left
\* them, for a user whose balance was 125000
InitHistory ==
  /\ InitCatalog
  /\ balance = [u \in AllUsers |-> IF u = OtherUser THEN NoBalance
                                    ELSE BalanceRow(125000)]
  /\ transactions =
       <<[user_id |-> DefaultUser, fund_id |-> "F1",
          transaction_type |-> "SUBSCRIPTION", amount |-> 125000,
          status |-> "COMPLETED", notification_sent |-> FALSE, created_at |-> 1],
         [user_id |-> DefaultUser, fund_id |-> "F1",
          transaction_type |-> "CANCELLATION", amount |-> 125000,
          status |-> "COMPLETED", notification_sent |-> FALSE, created_at |-> 2]>>
  /\ user_funds = [u \in AllUsers |-> [f \in FundIds |->
                     IF f = "F1" /\ u # OtherUser
                     THEN cancel_subscription(create_subscription(125000, 125000, 1), 2)
                     ELSE NoRow]]
  /\ clock = 2

InitRun(run) ==
  \/ InitTables /\ mode = [run |-> run, history |-> 0, balance0 |-> balance]
  \/ InitHistory /\ mode = [run |-> run, history |-> 2, balance0 |-> balance]

Init == InitRun("all")

InitService ==
  InitTables /\ mode = [run |-> "service", history |-> 0, balance0 |-> balance]

InitView == InitRun("views")

InitConc == InitRun("conc")

Environment ==
  \/ \E p \in Procs : Start(p)
  \/ \E p \in Procs : Finish(p)
  \/ SetMinimum
  \/ Deactivate

NextService ==
  \/ Environment
  \/ \E p \in Procs : create_user_balance(p)
  \/ \E p \in Procs : subscribe_to_fund(p)
  \/ \E p \in Procs : cancel_fund_subscription(p)

NextView ==
  \/ Environment
  \/ \E p \in Procs : create_user_balance(p)
  \/ \E p \in Procs : FundSubscribeView_post(p)
  \/ \E p \in Procs : FundCancellationView_post(p)

Next == NextService \/ NextView

\* every handler, one request at a time
Spec == Init /\ [][Next]_vars

\* FundService calls, one at a time
SpecService == InitService /\ [][NextService]_vars

\* view requests, one at a time
SpecView == InitView /\ [][NextView]_vars

NextConc ==
  \/ \E p \in Procs : Start(p)
  \/ \E p \in Procs : Finish(p)
  \/ \E p \in Procs : create_user_balance(p)
  \/ \E p \in Procs : subscribe_to_fund(p)
  \/ \E p \in Procs : cancel_fund_subscription(p)
  \/ \E p \in Procs : FundSubscribeView_post(p)
  \/ \E p \in Procs : FundCancellationView_post(p)

\* every handler, two workers, requests interleave between storage calls
SpecConc == InitConc /\ [][NextConc]_vars

\* every handler, one request at a time, the catalog holding a fund whose
\* minimum_amount is above the default balance
InitValidation == InitRun("validation")

SpecValidation == InitValidation /\ [][Next]_vars

InitRegistry == InitRun("registry")

\* amounts with decimals, in hundredths: funds that ask for 125000.50 and
\* 250000.10, a balance of 500000.75, 125000.50 or 125000.49
InitDecimal ==
  /\ funds = [f \in FundIds |->
                [exists |-> f # "F0", is_active |-> f # "F0",
                 minimum_amount |-> CASE f = "F1" -> 12500050
                                      [] f = "F2" -> 25000010
                                      [] OTHER -> 125000]]
  /\ proc = [p \in Procs |-> Idle]
  /\ catalogChanges = 0
  /\ balance \in {[u \in AllUsers |-> IF u = OtherUser THEN NoBalance ELSE BalanceRow(b)] :
                    b \in {50000075, 12500050, 12500049}}
  /\ transactions = <<>>
  /\ user_funds = [u \in AllUsers |-> [f \in FundIds |-> NoRow]]
  /\ clock = 0
  /\ mode = [run |-> "decimal", history |-> 0, balance0 |-> balance]

NextDecimal ==
  \/ \E p \in Procs : Start(p)
  \/ \E p \in Procs : Finish(p)
  \/ \E p \in Procs : subscribe_to_fund(p)
  \/ \E p \in Procs : cancel_fund_subscription(p)

\* FundService calls on amounts with decimals, one at a time
SpecDecimal == InitDecimal /\ [][NextDecimal]_vars

\* the ledger of a user who started with the default balance, subscribed F1
\* and then subscribed and cancelled F2 `rounds` times
LongLedger(rounds) ==
  [i \in 1..(2 * rounds + 1) |->
     [user_id |-> DefaultUser, fund_id |-> IF i = 1 THEN "F1" ELSE "F2",
      transaction_type |-> IF i % 2 = 1 /\ i > 1 THEN "CANCELLATION"
                           ELSE "SUBSCRIPTION",
      amount |-> IF i = 1 THEN 125000 ELSE 250000,
      status |-> "COMPLETED", notification_sent |-> FALSE, created_at |-> i]]

\* the rounds that leave the F1 subscription just inside, and just outside,
\* the HistoryLimit newest transactions
WindowRounds == {HistoryLimit \div 2 - 1, HistoryLimit \div 2}

InitWindow ==
  /\ InitCatalog
  /\ balance = [u \in AllUsers |-> IF u = OtherUser THEN NoBalance
                                    ELSE BalanceRow(DefaultBalance - 125000)]
  /\ \E rounds \in WindowRounds :
       /\ transactions = LongLedger(rounds)
       /\ clock = 2 * rounds + 1
       /\ mode = [run |-> "window", history |-> 2 * rounds + 1,
                  balance0 |-> balance]
  /\ user_funds = [u \in AllUsers |-> [f \in FundIds |-> NoRow]]

NextWindow ==
  \/ \E p \in Procs : Start(p)
  \/ \E p \in Procs : Finish(p)
  \/ \E p \in Procs : subscribe_to_fund(p)
  \/ \E p \in Procs : cancel_fund_subscription(p)
  \/ SetMinimum

\* FundService calls on a ledger as long as the window of the cancel scan
SpecWindow == InitWindow /\ [][NextWindow]_vars

\* two users, each with no balance row or with a balance of 125000
InitUsers ==
  /\ InitCatalog
  /\ balance \in [AllUsers -> {NoBalance, BalanceRow(125000)}]
  /\ transactions = <<>>
  /\ user_funds = [u \in AllUsers |-> [f \in FundIds |-> NoRow]]
  /\ clock = 0
  /\ mode = [run |-> "users", history |-> 0, balance0 |-> balance]

NextUsers ==
  \/ \E p \in Procs : Start(p)
  \/ \E p \in Procs : Finish(p)
  \/ \E p \in Procs : create_user_balance(p)
  \/ \E p \in Procs : subscribe_to_fund(p)
  \/ \E p \in Procs : cancel_fund_subscription(p)

\* FundService calls for two users, a worker each, interleaved between
\* storage calls
SpecUsers == InitUsers /\ [][NextUsers]_vars

NextRegistry ==
  \/ NextView
  \/ Remove
  \/ \E p \in Procs : UserActiveFundsView_get(p)

\* the three views that write the user_funds table, one request at a time
SpecRegistry == InitRegistry /\ [][NextRegistry]_vars

\* ------------------------------------------------------------- properties
\* what the properties say about a request that has returned
Returned(p, op) == proc[p].pc = "done" /\ proc[p].op = op

Subscribes == {"subscribe_service", "subscribe_view"}

\* the request of worker p follows, with nothing in between, a successful `op`
\* of the same worker for the same (user, fund)
Follows(p, op) ==
  /\ proc[p].prev.op = op
  /\ proc[p].prev.user = proc[p].user
  /\ proc[p].prev.fund = proc[p].fund

\* the transactions of (user, fund) with the given type and status, the one
\* the request of worker p created left out
Ledger(p, type, status) ==
  {i \in TxIds \ {proc[p].tx} :
     /\ transactions[i].user_id = proc[p].user
     /\ transactions[i].fund_id = proc[p].fund
     /\ transactions[i].transaction_type = type
     /\ transactions[i].status = status}

\* the COMPLETED SUBSCRIPTIONs of (user, fund) with no COMPLETED CANCELLATION
\* of (user, fund) created later
Uncancelled(p) ==
  {s \in Ledger(p, "SUBSCRIPTION", "COMPLETED") :
     \A c \in Ledger(p, "CANCELLATION", "COMPLETED") :
        ~(transactions[c].created_at > transactions[s].created_at)}

\* C1: under every interleaving of subscribe and cancel requests (service and
\* view paths, storage calls failing or not) a stored available_balance is
\* never negative.
C1_BalanceNeverNegative ==
  \A u \in Users : balance[u].exists => balance[u].available_balance >= 0

\* C1, its case: two interleaved subscriptions both read the balance 125000,
\* both pass the check, both succeed, and the stored balance is 0.
C1_Witness ==
  /\ \A p \in Procs : /\ proc[p].pc = "done"
                      /\ proc[p].op \in Subscribes
                      /\ proc[p].outcome = "Success"
                      /\ proc[p].cur = 125000
  /\ balance[DefaultUser].available_balance = 0

\* C2: for an existing active fund, FundService.subscribe_to_fund succeeds if
\* and only if the balance it read is >= minimum_amount; on success the
\* transaction is a SUBSCRIPTION of exactly minimum_amount whose stored status
\* is COMPLETED and the stored balance is the old balance minus minimum_amount;
\* with a smaller balance the outcome is InsufficientBalance, there is no
\* transaction and the balance is as it was.  (The failures of the PENDING
\* save and of the balance write have outcomes of their own and are left out.)
C2_SubscribeIffSufficient ==
  \A p \in Procs :
    LET me == proc[p] IN
    (/\ Returned(p, "subscribe_service") /\ me.fund_ok /\ me.bal_ok
     /\ me.cur >= me.fmin => (me.tx # NoTx /\ me.upd_ok))
    => /\ (me.outcome = "Success") <=> (me.cur >= me.fmin)
       /\ me.outcome = "Success" =>
            /\ me.tx # NoTx
            /\ transactions[me.tx].transaction_type = "SUBSCRIPTION"
            /\ transactions[me.tx].amount = me.fmin
            /\ transactions[me.tx].status = "COMPLETED"
            /\ me.ret_status = "COMPLETED"
            /\ balance[me.user] = BalanceRow(me.cur - me.fmin)
       /\ me.cur < me.fmin =>
            /\ me.outcome = "InsufficientBalance"
            /\ me.tx = NoTx
            /\ balance[me.user] = BalanceRow(me.cur)

\* C2, its case: a subscription with the balance equal to the minimum
\* succeeds and leaves the balance at exactly 0.
C2_Witness ==
  \E p \in Procs :
    /\ Returned(p, "subscribe_service")
    /\ proc[p].outcome = "Success"
    /\ proc[p].cur = proc[p].fmin
    /\ balance[proc[p].user] = BalanceRow(0)

\* C3: a successful cancel_fund_subscription that follows, with nothing in
\* between, a successful subscribe_to_fund of the same (user, fund) leaves the
\* balance the subscription started from.
C3_BalanceConserved ==
  \A p \in Procs :
    LET me == proc[p] IN
    (/\ Returned(p, "cancel_service") /\ me.outcome = "Success"
     /\ Follows(p, "subscribe_service"))
    => balance[me.user] = BalanceRow(me.prev.cur)

\* C3, its case: a subscription and then its cancellation, both successful.
C3_Witness ==
  \E p \in Procs :
    /\ Returned(p, "cancel_service") /\ proc[p].outcome = "Success"
    /\ Follows(p, "subscribe_service")
    /\ balance[proc[p].user] = BalanceRow(proc[p].prev.cur)

\* C4: through FundSubscribeView.post, a subscribe request that follows, with
\* nothing in between, a successful subscribe request of the same
\* (user, fund) ends with AlreadySubscribed, creates no transaction and
\* leaves the balance as it was.  (The fund is still on offer and no storage
\* call of the second request raises.)
C4_ViewSecondSubscribeRefused ==
  \A p \in Procs :
    LET me == proc[p] IN
    (/\ Returned(p, "subscribe_view") /\ Follows(p, "subscribe_view")
     /\ me.fund_ok /\ me.fails = 0)
    => /\ me.outcome = "AlreadySubscribed"
       /\ me.tx = NoTx
       /\ balance[me.user] = me.bal0

\* C4, its case: the second of two view subscriptions in a row is refused.
C4_Witness ==
  \E p \in Procs :
    /\ Returned(p, "subscribe_view") /\ Follows(p, "subscribe_view")
    /\ proc[p].outcome = "AlreadySubscribed"

\* C5: FundService.subscribe_to_fund called again after a successful call for
\* the same (user, fund), with nothing in between, ends with
\* AlreadySubscribed, creates no second SUBSCRIPTION and leaves the balance
\* as the first call left it.  (The fund is still on offer and no storage
\* call of the second call raises.)
C5_ServiceSecondSubscribeRefused ==
  \A p \in Procs :
    LET me == proc[p] IN
    (/\ Returned(p, "subscribe_service") /\ Follows(p, "subscribe_service")
     /\ me.fund_ok /\ me.fails = 0)
    => /\ me.outcome = "AlreadySubscribed"
       /\ me.tx = NoTx
       /\ balance[me.user] = me.bal0

\* the three cases of C6, on the ledger the cancel call found
NoHistory(p) ==
  \A i \in TxIds \ {proc[p].tx} :
     ~(transactions[i].user_id = proc[p].user /\ transactions[i].fund_id = proc[p].fund)

OnlyOtherFunds(p) ==
  /\ Ledger(p, "SUBSCRIPTION", "COMPLETED") = {}
  /\ \E i \in TxIds \ {proc[p].tx} :
       /\ transactions[i].user_id = proc[p].user
       /\ transactions[i].fund_id # proc[p].fund
       /\ transactions[i].transaction_type = "SUBSCRIPTION"
       /\ transactions[i].status = "COMPLETED"

LatestCancelled(p) ==
  /\ Ledger(p, "SUBSCRIPTION", "COMPLETED") # {}
  /\ \E c \in Ledger(p, "CANCELLATION", "COMPLETED") :
       \A s \in Ledger(p, "SUBSCRIPTION", "COMPLETED") :
          transactions[c].created_at > transactions[s].created_at

\* C6: cancel_fund_subscription for an existing fund ends with
\* NoActiveSubscription, creates no transaction and leaves the balance as it
\* was when (a) the user has no transaction of the fund, (b) the user's only
\* COMPLETED SUBSCRIPTIONs are of other funds, or (c) a COMPLETED CANCELLATION
\* of the fund was created later than its latest COMPLETED SUBSCRIPTION.
C6_CancelWithoutSubscription ==
  \A p \in Procs :
    LET me == proc[p] IN
    (/\ Returned(p, "cancel_service") /\ me.fund_ok
     /\ NoHistory(p) \/ OnlyOtherFunds(p) \/ LatestCancelled(p))
    => /\ me.outcome = "NoActiveSubscription"
       /\ me.tx = NoTx
       /\ balance[me.user] = me.bal0

\* C6, its case (c): a cancel call after a completed subscription and its
\* completed cancellation is refused.
C6_Witness ==
  \E p \in Procs :
    /\ Returned(p, "cancel_service") /\ proc[p].fund_ok
    /\ LatestCancelled(p)
    /\ proc[p].outcome = "NoActiveSubscription"

C8_FailureIsolation ==
  \A p \in Procs :
    LET me == proc[p] IN
    (me.pc = "done" /\ me.tx # NoTx /\ ~me.upd_ok)
    => /\ me.outcome = "BalanceUpdateFailed"
       /\ me.ret_status = "None"
       /\ transactions[me.tx].status = "FAILED"
       /\ balance[me.user] = BalanceRow(me.cur)
       /\ user_funds[me.user][me.fund] = me.row0

\* C8, its case: the balance write failed and the transaction is FAILED.
C8_Witness ==
  \E p \in Procs :
    /\ proc[p].pc = "done" /\ proc[p].tx # NoTx /\ ~proc[p].upd_ok
    /\ transactions[proc[p].tx].status = "FAILED"

\* C9: a transaction is first stored as PENDING, and a step changes a stored
\* status only from PENDING, to COMPLETED or to FAILED; the ledger only grows.
C9_StatusStateMachine ==
  [][/\ Len(transactions') >= Len(transactions)
     /\ \A i \in 1..Len(transactions') :
          IF i > Len(transactions)
          THEN transactions'[i].status = "PENDING"
          ELSE transactions'[i].status # transactions[i].status =>
                 /\ transactions[i].status = "PENDING"
                 /\ transactions'[i].status \in {"COMPLETED", "FAILED"}]_vars

\* C9, its case: the post-notification save has written a COMPLETED
\* transaction with notification_sent.
C9_Witness ==
  \E i \in TxIds : /\ transactions[i].status = "COMPLETED"
                   /\ transactions[i].notification_sent

\* C10: when a subscribe or cancel request returns, the transaction it stored
\* is no longer PENDING.
C10_NoPendingAfterReturn ==
  \A p \in Procs :
    (proc[p].pc = "done" /\ proc[p].tx # NoTx)
    => transactions[proc[p].tx].status # "PENDING"

\* C10, its case: a request returned and its transaction is COMPLETED or FAILED.
C10_Witness ==
  \E p \in Procs :
    /\ proc[p].pc = "done" /\ proc[p].tx # NoTx
    /\ transactions[proc[p].tx].status = "FAILED"
    /\ proc[p].st_ok

\* the sum of the amounts of the user's transactions of the given type and
\* status among the first n of the ledger
RECURSIVE Total(_, _, _, _)
Total(u, type, status, n) ==
  IF n = 0 THEN 0
  ELSE Total(u, type, status, n - 1)
       + (IF /\ transactions[n].user_id = u
             /\ transactions[n].transaction_type = type
             /\ transactions[n].status = status
          THEN transactions[n].amount ELSE 0)

\* the balance the user's run starts from: the stored row, or the default
\* the row is created with by the first request that reads it
InitialBalance(u) ==
  IF mode.balance0[u].exists THEN mode.balance0[u].available_balance
  ELSE DefaultBalance

\* no request is being served
Quiescent == \A p \in Procs : proc[p].pc \in {"idle", "done"}

\* C11: requests served one at a time, storage writes failing or not: when
\* no request is being served, a stored balance is the initial balance minus
\* the amounts of the user's COMPLETED SUBSCRIPTIONs plus the amounts of the
\* user's COMPLETED CANCELLATIONs; and a request whose transaction is stored
\* as PENDING or FAILED has left the balance it read.
C11_LedgerReconciles ==
  Quiescent =>
    /\ \A u \in Users :
         balance[u].exists =>
           balance[u].available_balance =
             InitialBalance(u)
             - Total(u, "SUBSCRIPTION", "COMPLETED", Len(transactions))
             + Total(u, "CANCELLATION", "COMPLETED", Len(transactions))
    /\ \A p \in Procs :
         LET me == proc[p] IN
         (me.pc = "done" /\ me.tx # NoTx
          /\ transactions[me.tx].status \in {"PENDING", "FAILED"})
         => balance[me.user] = BalanceRow(me.cur)

\* C11, its case: a subscription and a cancellation are COMPLETED, a third
\* transaction is FAILED, and the balance is the initial one less the first.
C11_Witness ==
  /\ Quiescent
  /\ \E i, j, k \in TxIds :
       /\ transactions[i].transaction_type = "SUBSCRIPTION"
       /\ transactions[i].status = "COMPLETED"
       /\ transactions[j].transaction_type = "CANCELLATION"
       /\ transactions[j].status = "COMPLETED"
       /\ transactions[k].status = "FAILED"
  /\ \A u \in Users :
       /\ balance[u].exists
       /\ balance[u].available_balance =
            InitialBalance(u)
            - Total(u, "SUBSCRIPTION", "COMPLETED", Len(transactions))
            + Total(u, "CANCELLATION", "COMPLETED", Len(transactions))

\* the COMPLETED SUBSCRIPTIONs of (u, f) with no COMPLETED CANCELLATION of
\* (u, f) created later
OpenSubscriptions(u, f) ==
  {i \in TxIds :
     /\ transactions[i].user_id = u /\ transactions[i].fund_id = f
     /\ transactions[i].transaction_type = "SUBSCRIPTION"
     /\ transactions[i].status = "COMPLETED"
     /\ \A c \in TxIds :
          ~(/\ transactions[c].user_id = u /\ transactions[c].fund_id = f
            /\ transactions[c].transaction_type = "CANCELLATION"
            /\ transactions[c].status = "COMPLETED"
            /\ transactions[c].created_at > transactions[i].created_at)}

\* C12: view requests (subscribe, cancel, the listing of active funds) served
\* one at a time, storage writes failing or not: when no request is being
\* served, every UserFund row with active = true has a COMPLETED SUBSCRIPTION
\* of the same (user, fund) that no COMPLETED CANCELLATION of (user, fund)
\* follows.
C12_ActiveRowHasOpenSubscription ==
  Quiescent =>
    \A u \in Users, f \in FundIds :
      (user_funds[u][f].exists /\ user_funds[u][f].active)
      => OpenSubscriptions(u, f) # {}

\* C12, its case: a subscribe request has reactivated the row of a fund that
\* was cancelled before, and the ledger holds the new COMPLETED SUBSCRIPTION.
C12_Witness ==
  \E p \in Procs :
    /\ Returned(p, "subscribe_view") /\ proc[p].outcome = "Success"
    /\ proc[p].row0.exists /\ ~proc[p].row0.active
    /\ user_funds[proc[p].user][proc[p].fund].active
    /\ proc[p].tx \in OpenSubscriptions(proc[p].user, proc[p].fund)

\* C13: the user_funds table holds one row per (user_id, fund_id), its key;
\* through any sequence of subscribe and cancel requests a row that exists
\* stays the row that was created (same created_at): a subscription after a
\* cancellation updates it and inserts no other.
C13_OneRowPerPair ==
  [][\A u \in Users, f \in FundIds :
       user_funds[u][f].exists =>
         /\ user_funds'[u][f].exists
         /\ user_funds'[u][f].created_at = user_funds[u][f].created_at]_vars

\* C13, its case: a subscription after a cancellation has reactivated the
\* row created by the first subscription, with a new subscribed_at.
C13_Witness ==
  \E p \in Procs :
    LET me == proc[p]
        row == user_funds[me.user][me.fund]
    IN  /\ Returned(p, "subscribe_view") /\ me.outcome = "Success"
        /\ me.row0.exists /\ ~me.row0.active
        /\ row.active
        /\ row.created_at = me.row0.created_at
        /\ row.subscribed_at > me.row0.subscribed_at

\* the results of the validation checks of subscribe and cancel
ValidationFailures == {"FundNotFound", "FundUnavailable", "AlreadySubscribed",
                       "InsufficientBalance", "NoActiveSubscription"}

\* the request of worker p was rejected by a validation check
Rejected(p) == proc[p].pc = "done" /\ proc[p].outcome \in ValidationFailures

\* the ledger and the user's UserFund rows are as the request found them
TablesAsBefore(p) ==
  /\ proc[p].tx = NoTx
  /\ proc[p].tables0 = <<transactions, user_funds[proc[p].user]>>

\* C14 as stated: a subscribe or cancel request rejected by a validation check
\* has created no transaction, and the stored balance and UserFund rows of
\* the user are exactly as before the call.
C14_RejectionMutatesNothing ==
  \A p \in Procs :
    Rejected(p) => /\ TablesAsBefore(p)
                   /\ balance[proc[p].user] = proc[p].bal0

\* C14: a subscribe or cancel request rejected by a validation check has
\* created no transaction and has left the UserFund rows and an existing
\* balance row as they were; a subscribe request rejected for insufficient
\* balance for a user that had no balance row has created the row with the
\* default balance.
C14_RejectionMutatesNoExistingRecord ==
  \A p \in Procs :
    LET me == proc[p] IN
    Rejected(p) =>
      /\ TablesAsBefore(p)
      /\ \/ balance[me.user] = me.bal0
         \/ /\ ~me.bal0.exists
            /\ me.op \in Subscribes /\ me.outcome = "InsufficientBalance"
            /\ balance[me.user] = BalanceRow(DefaultBalance)

\* C14, its case: a subscription is refused for insufficient balance with
\* transactions in the ledger and a subscription in the registry, all left
\* as they were.
C14_Witness ==
  \E p \in Procs :
    /\ Rejected(p) /\ proc[p].outcome = "InsufficientBalance"
    /\ proc[p].bal0.exists /\ balance[proc[p].user] = proc[p].bal0
    /\ transactions # <<>>
    /\ TablesAsBefore(p)

\* two subscribe workflows of one user have both read the same balance and
\* both returned success, their transactions stored as COMPLETED
BothCharged(p, q) ==
  /\ p # q
  /\ \A w \in {p, q} : /\ proc[w].pc = "done"
                        /\ proc[w].op \in Subscribes
                        /\ proc[w].outcome = "Success"
                        /\ transactions[proc[w].tx].status = "COMPLETED"
  /\ proc[p].user = proc[q].user
  /\ proc[p].cur = proc[q].cur

\* C15: when two interleaved subscribe workflows of one user have both read
\* the same starting balance and both returned success with a COMPLETED
\* transaction, the stored balance is the starting balance less one of the
\* two debits, not less their sum.
C15_LostUpdate ==
  \A p, q \in Procs :
    BothCharged(p, q) =>
      LET b == balance[proc[p].user].available_balance IN
      /\ b \in {proc[p].cur - transactions[proc[p].tx].amount,
                proc[q].cur - transactions[proc[q].tx].amount}
      /\ b # proc[p].cur - transactions[proc[p].tx].amount
                         - transactions[proc[q].tx].amount

\* C15, its case: the interleaving exists: both workflows read 125000, both
\* COMPLETED SUBSCRIPTIONs are of 125000 and the stored balance is 0.
C15_Witness ==
  /\ BothCharged(1, 2)
  /\ proc[1].cur = 125000
  /\ transactions[proc[1].tx].amount = 125000
  /\ transactions[proc[2].tx].amount = 125000
  /\ balance[proc[1].user] = BalanceRow(0)

\* C16: FundService.subscribe_to_fund and cancel_fund_subscription return a
\* result (success flag, message, optional transaction) for every outcome,
\* whichever storage call fails: no exception escapes to the caller.
C16_AllFailuresAreValues ==
  \A p \in Procs :
    (proc[p].pc = "done" /\ proc[p].op \in {"subscribe_service", "cancel_service"})
    => proc[p].outcome # "Exception"

\* C16, its case: a storage call has failed (the balance write) and the
\* call has returned the failure as a value.
C16_Witness ==
  \E p \in Procs :
    /\ proc[p].pc = "done" /\ proc[p].op \in {"subscribe_service", "cancel_service"}
    /\ proc[p].fails > 0
    /\ proc[p].outcome = "BalanceUpdateFailed"

\* C17: in the views, the notification step (after a successful balance
\* write) leaves the balance and the UserFund rows as they are, adds and
\* removes no transaction, leaves a COMPLETED transaction COMPLETED with its
\* amount, and sets notification_sent only on the request's own transaction
\* and only when the send reported success.
C17_NotificationNeverRollsBack ==
  [][\A p \in Procs :
       (proc[p].pc \in {"vs_notify", "vc_notify"} /\ proc'[p] # proc[p])
       => /\ proc[p].upd_ok
          /\ balance' = balance
          /\ user_funds' = user_funds
          /\ Len(transactions') = Len(transactions)
          /\ \A i \in TxIds :
               /\ transactions'[i].amount = transactions[i].amount
               /\ transactions[i].status = "COMPLETED"
                    => transactions'[i].status = "COMPLETED"
               /\ transactions'[i].notification_sent # transactions[i].notification_sent
                    => /\ i = proc[p].tx
                       /\ proc'[p].sent
                       /\ transactions'[i].notification_sent]_vars

\* C17, its case: the send reported success and the save that follows
\* raised: the view answers 500, the balance stays debited, the transaction
\* stays COMPLETED without notification_sent and the row stays active.
C17_Witness ==
  \E p \in Procs :
    LET me == proc[p] IN
    /\ Returned(p, "subscribe_view") /\ me.outcome = "ServerError"
    /\ me.sent /\ me.upd_ok
    /\ balance[me.user] = BalanceRow(me.cur - me.fmin)
    /\ transactions[me.tx].status = "COMPLETED"
    /\ ~transactions[me.tx].notification_sent
    /\ user_funds[me.user][me.fund].active

\* the user a step of worker p is taken for
Served(p) == IF proc[p].pc = "idle" THEN proc'[p].user ELSE proc[p].user

\* what a finished FundService call of worker p has read and written is its
\* own user's: the balance it leaves is the one it read, debited or credited
\* when its write was stored, and a cancellation succeeds exactly when the
\* user's own ledger holds a subscription to refund, of that amount
OwnDataOnly(p) ==
  LET me == proc[p] IN
  /\ (me.bal_ok /\ me.tx # NoTx /\ me.op = "subscribe_service") =>
        balance[me.user] = BalanceRow(IF me.upd_ok THEN me.cur - me.amount ELSE me.cur)
  /\ (me.bal_ok /\ me.tx # NoTx /\ me.op = "cancel_service") =>
        balance[me.user] = BalanceRow(IF me.upd_ok THEN me.cur + me.amount ELSE me.cur)
  /\ (me.op = "cancel_service" /\ me.fund_ok /\ me.fails = 0) =>
        /\ (me.outcome = "Success") <=> (Uncancelled(p) # {})
        /\ (me.outcome = "NoActiveSubscription") <=> (Uncancelled(p) = {})
        /\ me.outcome = "Success" =>
             \E i \in Uncancelled(p) : transactions[i].amount = me.amount

\* C18: under every interleaving of the FundService workflows of two users,
\* a step taken for one user leaves the balance row, the UserFund rows and
\* the transactions of the other user as they are and adds no transaction
\* of the other user; and the result of a workflow is a function of its own
\* user's balance and ledger.
C18_UserIsolation ==
  /\ [](\A p \in Procs : proc[p].pc = "done" => OwnDataOnly(p))
  /\ [][\A p \in Procs, u \in AllUsers :
          (proc'[p] # proc[p] /\ u # Served(p))
          => /\ balance'[u] = balance[u]
             /\ user_funds'[u] = user_funds[u]
             /\ \A i \in 1..Len(transactions') :
                  IF i <= Len(transactions)
                  THEN transactions[i].user_id = u => transactions'[i] = transactions[i]
                  ELSE transactions'[i].user_id # u]_vars

\* C18, its case: user_default has subscribed and cancelled while user_b
\* subscribed; user_b's balance is the one it read less its own debit, and
\* its SUBSCRIPTION is still there to be refunded.
C18_Witness ==
  /\ Returned(1, "cancel_service") /\ proc[1].outcome = "Success"
  /\ Returned(2, "subscribe_service") /\ proc[2].outcome = "Success"
  /\ proc[1].user # proc[2].user
  /\ balance[proc[2].user] = BalanceRow(proc[2].cur - proc[2].fmin)
  /\ transactions[proc[2].tx].status = "COMPLETED"
  /\ transactions[proc[2].tx].created_at < transactions[proc[1].tx].created_at

C20_StepOrdering ==
  [][\A p \in Procs :
       LET me == proc[p] IN
       proc'[p] # proc[p] =>
         /\ (balance[me.user].exists /\ balance'[me.user] # balance[me.user])
              => /\ me.tx \in TxIds
                 /\ transactions[me.tx].status = "PENDING"
         /\ \A i \in TxIds :
              (transactions[i].status # "COMPLETED"
               /\ transactions'[i].status = "COMPLETED")
              => (i = me.tx /\ me.upd_ok)
         /\ user_funds' # user_funds
              => /\ me.tx \in TxIds
                 /\ me.upd_ok
                 /\ transactions[me.tx].status = "COMPLETED"]_vars

\* C20, its case: a view subscription went through its steps in order: the
\* transaction is stored as COMPLETED, the balance is debited and the row
\* is active.
C20_Witness ==
  \E p \in Procs :
    LET me == proc[p] IN
    /\ Returned(p, "subscribe_view") /\ me.outcome = "Success"
    /\ me.st_ok /\ me.upd_ok /\ me.fails = 0
    /\ transactions[me.tx].status = "COMPLETED"
    /\ balance[me.user] = BalanceRow(me.cur - me.fmin)
    /\ user_funds[me.user][me.fund].active
    /\ user_funds[me.user][me.fund].subscribed_at >= transactions[me.tx].created_at

\* the transactions of (u, f) with the given type, stored as COMPLETED
Completed(u, f, type) ==
  {i \in TxIds : /\ transactions[i].user_id = u /\ transactions[i].fund_id = f
                 /\ transactions[i].transaction_type = type
                 /\ transactions[i].status = "COMPLETED"}

\* C21: under every interleaving of subscribe and cancel requests, with
\* equal created_at allowed, for each (user, fund) the COMPLETED
\* CANCELLATIONs are never more than the COMPLETED SUBSCRIPTIONs.
C21_NoDoubleRefund ==
  \A u \in AllUsers, f \in FundIds :
    Cardinality(Completed(u, f, "CANCELLATION"))
      <= Cardinality(Completed(u, f, "SUBSCRIPTION"))

\* C21, its case: a second cancel request of a subscription already refunded
\* (the cancellation created later than the subscription) was refused.
C21_Witness ==
  \E p \in Procs :
    /\ proc[p].pc = "done" /\ proc[p].op \in {"cancel_service", "cancel_view"}
    /\ proc[p].outcome = "NoActiveSubscription"
    /\ Cardinality(Completed(proc[p].user, proc[p].fund, "CANCELLATION")) = 1
    /\ Cardinality(Completed(proc[p].user, proc[p].fund, "SUBSCRIPTION")) = 1

\* when the cancel call of worker p arrived, the ledger held more COMPLETED
\* SUBSCRIPTIONs than COMPLETED CANCELLATIONs of (user, fund)
Charged(p) ==
  Cardinality(Ledger(p, "SUBSCRIPTION", "COMPLETED"))
    > Cardinality(Ledger(p, "CANCELLATION", "COMPLETED"))

\* C22: FundService calls one at a time: a cancel_fund_subscription for a
\* fund that exists, none of whose storage calls raises, for a (user, fund)
\* with more COMPLETED SUBSCRIPTIONs than COMPLETED CANCELLATIONs, succeeds
\* and credits the amount of one of the user's COMPLETED SUBSCRIPTIONs of
\* the fund.
C22_ChargedIsRefundable ==
  \A p \in Procs :
    LET me == proc[p] IN
    (/\ Returned(p, "cancel_service") /\ me.fund_ok /\ me.fails = 0
     /\ Charged(p))
    => /\ me.outcome = "Success"
       /\ \E s \in Ledger(p, "SUBSCRIPTION", "COMPLETED") :
            /\ transactions[me.tx].amount = transactions[s].amount
            /\ balance[me.user] = BalanceRow(me.cur + transactions[s].amount)

\* C22, its case: a charged subscription was refunded by a cancel call.
C22_Witness ==
  \E p \in Procs :
    /\ Returned(p, "cancel_service") /\ proc[p].fails = 0 /\ Charged(p)
    /\ proc[p].outcome = "Success"
    /\ transactions[proc[p].tx].status = "COMPLETED"
    /\ balance[proc[p].user] = BalanceRow(proc[p].cur + proc[p].amount)

\* the transactions of the user of worker p among the HistoryLimit newest the
\* scan of its request was given (the one the request created left out)
Window(p) ==
  LET own == {i \in TxIds \ {proc[p].tx} : transactions[i].user_id = proc[p].user}
  IN  {i \in own :
         Cardinality({j \in own : transactions[j].created_at
                                    > transactions[i].created_at}) < HistoryLimit}

\* the COMPLETED SUBSCRIPTIONs of (user, fund) in the window with no
\* COMPLETED CANCELLATION of (user, fund) in the window created later
WindowUncancelled(p) ==
  {s \in Window(p) \cap Ledger(p, "SUBSCRIPTION", "COMPLETED") :
     \A c \in Window(p) \cap Ledger(p, "CANCELLATION", "COMPLETED") :
        ~(transactions[c].created_at > transactions[s].created_at)}

\* C23: FundService.cancel_fund_subscription (fund on record, no storage call
\* raising) succeeds exactly when, among the HistoryLimit newest transactions
\* of the user, there is a COMPLETED SUBSCRIPTION of the fund with no
\* COMPLETED CANCELLATION of the fund among them created strictly later; it
\* refunds the newest such subscription.  Transactions of other funds, of
\* another status or outside the window have no part in the decision.
C23_ScanWindow ==
  \A p \in Procs :
    LET me == proc[p] IN
    (Returned(p, "cancel_service") /\ me.fund_ok /\ me.fails = 0)
    => /\ (me.outcome = "Success") <=> (WindowUncancelled(p) # {})
       /\ me.outcome # "Success" => me.outcome = "NoActiveSubscription"
       /\ me.outcome = "Success" =>
            \E s \in WindowUncancelled(p) :
               /\ \A o \in WindowUncancelled(p) :
                    transactions[o].created_at <= transactions[s].created_at
               /\ transactions[me.tx].amount = transactions[s].amount

\* C23, its case: a cancel is refused although the ledger holds a COMPLETED
\* SUBSCRIPTION of the fund that no CANCELLATION followed, because
\* HistoryLimit newer transactions have pushed it out of the window.
C23_Witness ==
  \E p \in Procs :
    /\ Returned(p, "cancel_service") /\ proc[p].fund_ok /\ proc[p].fails = 0
    /\ proc[p].outcome = "NoActiveSubscription"
    /\ Uncancelled(p) # {}
    /\ WindowUncancelled(p) = {}
    /\ Len(transactions) > HistoryLimit

\* C24: in every state the view workflows reach (no request being served),
\* for every fund on record the check of FundCancellationSerializer (the
\* UserFund row exists and is active; refund = invested_amount) and the scan
\* of FundService.cancel_fund_subscription accept the same cancel requests,
\* and when they accept they refund the same amount.
C24_RegistryAndLedgerAgree ==
  Quiescent =>
    \A u \in Users, f \in FundIds :
      funds[f].exists =>
        \A q \in get_user_transactions(u, HistoryLimit) :
          LET row == user_funds[u][f]
              last == last_subscription(q, f)
          IN  /\ (row.exists /\ row.active) <=> (last # NoTx)
              /\ last # NoTx => row.invested_amount = refund_amount(last, f)

\* C25: whenever FundSubscribeView.post reports success, storage calls
\* failing or not, the transaction is stored as COMPLETED and the UserFund
\* row of (user, fund) exists with active = true, cancelled_at cleared and
\* subscription_amount = invested_amount = the amount debited.
C25_SuccessHasRow ==
  \A p \in Procs :
    LET me == proc[p]
        row == user_funds[me.user][me.fund]
    IN  (Returned(p, "subscribe_view") /\ me.outcome = "Success")
        => /\ transactions[me.tx].status = "COMPLETED"
           /\ row.exists /\ row.active
           /\ row.cancelled_at = NoRow.cancelled_at
           /\ row.subscription_amount = me.amount
           /\ row.invested_amount = me.amount

\* C26: through the views, with no storage call raising: a cancel request
\* right after a successful subscribe request of the same (user, fund), whose
\* row is active, succeeds and leaves the row inactive; a subscribe request
\* that finds the row of (user, fund) inactive (fund on offer, balance
\* sufficient) is allowed and succeeds: the same row is then active with
\* cancelled_at cleared, subscription_amount and invested_amount the fund
\* minimum, subscribed_at that of the new subscription, and the balance is
\* debited by the fund minimum once more.
C26_Reactivation ==
  \A p \in Procs :
    LET me == proc[p]
        row == user_funds[me.user][me.fund]
    IN  /\ (/\ Returned(p, "cancel_view") /\ Follows(p, "subscribe_view")
            /\ me.fund_ok /\ me.fails = 0 /\ me.row0.exists /\ me.row0.active)
           => /\ me.outcome = "Success"
              /\ row.exists /\ ~row.active
              /\ balance[me.user] = BalanceRow(me.cur + me.row0.invested_amount)
        /\ (/\ Returned(p, "subscribe_view") /\ me.fund_ok /\ me.fails = 0
            /\ me.row0.exists /\ ~me.row0.active
            /\ me.bal_ok => me.cur >= me.fmin)
           => /\ can_user_subscribe(me.row0)
              /\ me.outcome = "Success"
              /\ transactions[me.tx].transaction_type = "SUBSCRIPTION"
              /\ transactions[me.tx].status = "COMPLETED"
              /\ transactions[me.tx].amount = me.fmin
              /\ row.exists /\ row.active
              /\ row.cancelled_at = NoRow.cancelled_at
              /\ row.created_at = me.row0.created_at
              /\ row.subscribed_at >= transactions[me.tx].created_at
              /\ row.subscription_amount = me.fmin
              /\ row.invested_amount = me.fmin
              /\ balance[me.user] = BalanceRow(me.cur - me.fmin)

\* C26, its case: after a subscription and its cancellation a second
\* subscription has succeeded; the row is active again with a later
\* subscribed_at and the ledger holds two COMPLETED SUBSCRIPTIONs.
C26_Witness ==
  \E p \in Procs :
    LET me == proc[p]
        row == user_funds[me.user][me.fund]
    IN  /\ Returned(p, "subscribe_view") /\ me.outcome = "Success"
        /\ me.fails = 0
        /\ me.row0.exists /\ ~me.row0.active /\ me.row0.cancelled_at # -1
        /\ row.active /\ row.cancelled_at = -1
        /\ row.subscribed_at > me.row0.cancelled_at
        /\ row.invested_amount = me.fmin
        /\ balance[me.user] = BalanceRow(me.cur - me.fmin)
        /\ Cardinality(Completed(me.user, me.fund, "SUBSCRIPTION")) = 2
        /\ Cardinality(Completed(me.user, me.fund, "CANCELLATION")) = 1

\* C27: a subscribe request (FundService.subscribe_to_fund or
\* FundSubscribeView.post, no storage call raising) for a fund on record
\* whose is_active is false ends with FundUnavailable, one for a fund with no
\* record ends with FundNotFound; either way no transaction is created and
\* the balance is as it was.
C27_UnavailableIsNotMissing ==
  \A p \in Procs :
    LET me == proc[p] IN
    (/\ me.pc = "done" /\ me.op \in Subscribes /\ me.fails = 0
     /\ ~(funds[me.fund].exists /\ funds[me.fund].is_active))
    => /\ me.outcome = IF funds[me.fund].exists THEN "FundUnavailable"
                       ELSE "FundNotFound"
       /\ me.tx = NoTx
       /\ balance[me.user] = me.bal0

\* C28: a UserFund row changes only in a step of the subscribe or the cancel
\* workflow of its (user, fund) - the listing of the user's active funds
\* leaves every row as it is - and when a row goes from active = true to
\* active = false the request that does it has a COMPLETED CANCELLATION
\* stored and has credited its refund to the balance.
C28_RowsChangeInWorkflows ==
  [][\A u \in Users, f \in FundIds :
       user_funds'[u][f] # user_funds[u][f] =>
         \E p \in Procs :
           LET me == proc[p] IN
           /\ me.op \in {"subscribe_view", "cancel_view"}
           /\ me.pc \notin {"idle", "done"}
           /\ me.user = u /\ me.fund = f
           /\ (user_funds[u][f].active /\ ~user_funds'[u][f].active) =>
                /\ me.op = "cancel_view" /\ me.tx # NoTx
                /\ transactions[me.tx].transaction_type = "CANCELLATION"
                /\ transactions[me.tx].status = "COMPLETED"
                /\ balance[u] = BalanceRow(me.cur + me.amount)]_vars

\* C29: under every interleaving of the workflows, the save of
\* UserBalance.get_or_create_balance writes the default balance only for a
\* user without a balance row: a step of it never changes a balance row that
\* is already stored.
C29_NeverResetsBalance ==
  [][\A p \in Procs :
       (/\ proc[p].pc = "balance_new" /\ proc'[p] # proc[p]
        /\ balance[proc[p].user].exists)
       => balance'[proc[p].user] = balance[proc[p].user]]_vars

\* C30: a cancel request (no storage call raising) for a fund on record with
\* is_active = false, by a user whose subscription is on record (for
\* FundService a COMPLETED SUBSCRIPTION that no COMPLETED CANCELLATION
\* follows, for the view an active UserFund row), succeeds and credits the
\* amount of that subscription; a cancel request for a fund with no record
\* ends with FundNotFound, creates no transaction and leaves the balance as
\* it was.
C30_CancelNeedsOnlyTheRecord ==
  \A p \in Procs :
    LET me == proc[p]
        f == funds[me.fund]
    IN  /\ (/\ Returned(p, "cancel_service") /\ me.fails = 0
            /\ f.exists /\ ~f.is_active /\ Uncancelled(p) # {})
           => /\ me.outcome = "Success"
              /\ \E s \in Uncancelled(p) :
                   /\ transactions[me.tx].amount = transactions[s].amount
                   /\ balance[me.user] = BalanceRow(me.cur + transactions[s].amount)
        /\ (/\ Returned(p, "cancel_view") /\ me.fails = 0
            /\ f.exists /\ ~f.is_active /\ me.row0.exists /\ me.row0.active)
           => /\ me.outcome = "Success"
              /\ transactions[me.tx].amount = me.row0.invested_amount
              /\ balance[me.user] = BalanceRow(me.cur + me.row0.invested_amount)
        /\ (/\ me.pc = "done" /\ me.op \in {"cancel_service", "cancel_view"}
            /\ me.fails = 0 /\ ~f.exists)
           => /\ me.outcome = "FundNotFound"
              /\ me.tx = NoTx
              /\ balance[me.user] = me.bal0

\* C30, its case: a fund was taken out of the offer after a successful
\* subscription, and the cancel request that follows has succeeded and
\* given the balance back.
C30_Witness ==
  \E p \in Procs :
    LET me == proc[p] IN
    /\ me.pc = "done" /\ me.op \in {"cancel_service", "cancel_view"}
    /\ me.prev.op \in Subscribes /\ me.prev.fund = me.fund
    /\ funds[me.fund].exists /\ ~funds[me.fund].is_active
    /\ me.outcome = "Success"
    /\ transactions[me.tx].status = "COMPLETED"
    /\ balance[me.user] = BalanceRow(me.prev.cur)
====
